---- MODULE Spec2Model ----
(***************************************************************************)
(* Model of the coroutine message bus of src/1/corobus.cpp: a table of     *)
(* bounded FIFO channels with per-channel send/recv wait queues, a bus     *)
(* level broadcast wait queue and a process-wide error indicator.          *)
(*                                                                         *)
(* One step of the model is what one coroutine does between two points at  *)
(* which control is with the scheduler: a whole call of a non-blocking     *)
(* operation, or a blocking operation from its entry (or from its          *)
(* resumption inside wakeup_queue_suspend_this) up to its return or its    *)
(* next coro_suspend().  The runtime is single-threaded and cooperative,   *)
(* so nothing interleaves inside such a step.                              *)
(***************************************************************************)
EXTENDS Integers, Sequences, FiniteSets, TLC

\* ---- bounds of the model ------------------------------------------------
NCoro == 2          \* coroutines that may block in the bus
MaxSlots == 2       \* the channel table never grows beyond this many slots
MaxCap == 2         \* largest size_limit given to open
MaxBatch == 2       \* largest count / capacity given to the batch calls
MaxVal == 1         \* payloads are 1..MaxVal under Spec
NFifoCoro == 1      \* coroutines that act under SpecFifo
MaxFifoVal == 2     \* payloads are 1..MaxFifoVal under SpecFifo
MaxK == 3           \* blocking sends (and receives) of a run under SpecLive

Coros == 1..NCoro
\* descriptors handed to the calls: negative, inside the table, beyond it
Descs == -1..MaxSlots
\* The code never looks at a payload, so the specification of the blocking
\* protocol (Spec) sends one value between NCoro coroutines, and the
\* specification of the payloads (SpecFifo) distinguishable values with fewer
\* coroutines.
Values == 1..MaxVal
FifoCoros == 1..NFifoCoro
FifoValues == 1..MaxFifoVal
AllValues == Values \cup FifoValues
BufsOver(V) == UNION {[1..n -> V] : n \in 0..MaxBatch}
Bufs == BufsOver(Values)
FifoBufs == BufsOver(FifoValues)

Min(a, b) == IF a < b THEN a ELSE b
Range(s) == {s[i] : i \in 1..Len(s)}
Take(s, n) == SubSeq(s, 1, Min(n, Len(s)))
Drop(s, n) == SubSeq(s, Min(n, Len(s)) + 1, Len(s))

VARIABLES
    channels,        \* bus->channels[0..channel_count): slot d is channels[d+1]
    broadcast_queue, \* bus->broadcast_queue, head first
    global_error,    \* the error indicator
    coro_state,      \* per coroutine: "idle", "suspended" or "runnable"
    call,            \* per coroutine: the blocking call it is inside of
    closed_under,    \* history: coroutines that sat in a wait queue of a
                     \*   channel when it was closed and have not resumed yet
    dangling,        \* coroutines whose wakeup_entry is still linked into a
                     \*   wait queue of a destroyed channel
    freed_access,    \* TRUE once somebody touched a destroyed channel
    fifo,            \* history, per slot: the values callers were told were
                     \*   appended and not yet told were removed, oldest first
    plan             \* per coroutine of a producer/consumer run: its role, the
                     \*   blocking calls it is to make and how many are left

vars == <<channels, broadcast_queue, global_error, coro_state, call,
          closed_under, dangling, freed_access, fifo, plan>>

\* ---- data ------------------------------------------------------------------
\* An empty slot (bus->channels[i] == NULL).
NullChannel ==
    [live |-> FALSE, size_limit |-> 0, data |-> <<>>,
     send_queue |-> <<>>, recv_queue |-> <<>>]

\* A channel right after coro_bus_channel_open built it.
NewChannel(size_limit) ==
    [live |-> TRUE, size_limit |-> size_limit, data |-> <<>>,
     send_queue |-> <<>>, recv_queue |-> <<>>]

\* struct coro_bus as the operations see it.
Bus == [channels |-> channels, broadcast_queue |-> broadcast_queue]

NoPlan == [role |-> "none", quota |-> 0, left |-> 0]
NoCall == [op |-> "none", channel |-> -1, data |-> <<>>, capacity |-> 0]
MkCall(op, channel, data, capacity) ==
    [op |-> op, channel |-> channel, data |-> data, capacity |-> capacity]

\* What one pass through an operation did: the bus afterwards, the coroutines
\* handed to coro_wakeup, the error indicator, whether the caller suspended,
\* and if it returned, the value and the out values.
Eff(chs, bq, woken, err, susp, r, o) ==
    [channels |-> chs, broadcast_queue |-> bq, woken |-> woken, err |-> err,
     susp |-> susp, ret |-> r, out |-> o]

\* The err of a pass that reached its return without coro_bus_errno_set.
Unwritten == "UNWRITTEN"
\* coro_bus_errno() once effect e is in place: what the pass wrote, or what an
\* earlier call left behind if it wrote nothing.
ErrnoAfter(e) == IF e.err = Unwritten THEN global_error ELSE e.err

\* A return of -1 that touched nothing but the error indicator.
NoChannel(bus) ==
    Eff(bus.channels, bus.broadcast_queue, {}, "NO_CHANNEL", FALSE, -1, <<>>)

\* Mutant of WouldBlock: returns -1 and forgets coro_bus_errno_set.
WouldBlock_without_errno(bus) ==
    Eff(bus.channels, bus.broadcast_queue, {}, Unwritten, FALSE, -1, <<>>)

WouldBlock(bus) ==
    Eff(bus.channels, bus.broadcast_queue, {}, "WOULD_BLOCK", FALSE, -1, <<>>)

\* ---- wait queues -------------------------------------------------------------
\* Mutant of wakeup_queue_suspend_this: links the entry at the head.
suspend_this_at_head(queue, c) == <<c>> \o queue

\* wakeup_queue_suspend_this, up to coro_suspend(): link at the tail.
wakeup_queue_suspend_this(queue, c) == Append(queue, c)

\* Mutant of wakeup_queue_wakeup_first: detaches the head and forgets to wake it.
wakeup_first_without_wakeup(queue) ==
    IF queue = <<>>
    THEN [queue |-> queue, woken |-> {}]
    ELSE [queue |-> Tail(queue), woken |-> {}]

\* wakeup_queue_wakeup_first: detach the head, then wake it.
wakeup_queue_wakeup_first(queue) ==
    IF queue = <<>>
    THEN [queue |-> queue, woken |-> {}]
    ELSE [queue |-> Tail(queue), woken |-> {Head(queue)}]

\* n calls of wakeup_queue_wakeup_first in a row.
RECURSIVE wakeup_first_times(_, _)
wakeup_first_times(queue, n) ==
    IF n = 0
    THEN [queue |-> queue, woken |-> {}]
    ELSE LET w == wakeup_queue_wakeup_first(queue)
             rest == wakeup_first_times(w.queue, n - 1)
         IN  [queue |-> rest.queue, woken |-> w.woken \cup rest.woken]

\* Mutant of wakeup_queue_wakeup_all: wakes every waiter and leaves it linked.
wakeup_all_without_detach(queue) ==
    [queue |-> queue, woken |-> Range(queue)]

\* wakeup_queue_wakeup_all: detach and wake until the queue is empty.
wakeup_queue_wakeup_all(queue) ==
    [queue |-> <<>>, woken |-> Range(queue)]

\* rlist_del_entry(&entry, base) after coro_suspend() returned: unlink the
\* entry from whatever live queue still holds it (nothing, if a waker
\* detached it).
Unlink(queue, c) == SelectSeq(queue, LAMBDA x : x # c)
UnlinkBus(bus, c) ==
    [channels |-> [i \in 1..Len(bus.channels) |->
                     [bus.channels[i] EXCEPT
                        !.send_queue = Unlink(@, c),
                        !.recv_queue = Unlink(@, c)]],
     broadcast_queue |-> Unlink(bus.broadcast_queue, c)]

\* ---- the bus -------------------------------------------------------------------
\* coro_bus_new: no channels, an empty broadcast queue, the indicator at NONE.
coro_bus_new == Eff(<<>>, <<>>, {}, "NONE", FALSE, 0, <<>>)

\* Mutant of coro_bus_get_channel: forgets that a slot may be empty.
get_channel_without_null_check(bus, channel) ==
    /\ channel >= 0
    /\ channel < Len(bus.channels)

\* coro_bus_get_channel succeeds (the failing branch sets NO_CHANNEL).
coro_bus_get_channel(bus, channel) ==
    /\ channel >= 0
    /\ channel < Len(bus.channels)
    /\ bus.channels[channel + 1].live


\* The scan of coro_bus_channel_open for the lowest empty slot, from slot i
\* on: its index, or -1 when every slot is taken.
RECURSIVE find_free(_, _)
find_free(chs, i) ==
    IF i >= Len(chs) THEN -1
    ELSE IF ~chs[i + 1].live THEN i
    ELSE find_free(chs, i + 1)

\* Mutant of coro_bus_channel_open: never reuses a slot.
coro_bus_channel_open_always_grow(bus, size_limit) ==
    Eff(Append(bus.channels, NewChannel(size_limit)),
        bus.broadcast_queue, {}, "NONE", FALSE, Len(bus.channels), <<>>)

\* coro_bus_channel_open: reuse the lowest empty slot, else grow the table by
\* one slot and use the new last one.
coro_bus_channel_open(bus, size_limit) ==
    LET found == find_free(bus.channels, 0)
        free_idx == IF found < 0 THEN Len(bus.channels) ELSE found
        table == IF found < 0
                 THEN Append(bus.channels, NullChannel)
                 ELSE bus.channels
    IN  Eff([table EXCEPT ![free_idx + 1] = NewChannel(size_limit)],
            bus.broadcast_queue, {}, "NONE", FALSE, free_idx, <<>>)

\* coro_bus_channel_close: a void function that returns silently on a
\* descriptor that names no channel (its own test, the condition of
\* coro_bus_get_channel without the coro_bus_errno_set); otherwise it empties
\* the slot, wakes every waiter of the channel and every broadcaster, and
\* destroys the channel. No path through it calls coro_bus_errno_set.
coro_bus_channel_close(bus, channel) ==
    IF ~coro_bus_get_channel(bus, channel)
    THEN Eff(bus.channels, bus.broadcast_queue, {}, Unwritten, FALSE, 0, <<>>)
    ELSE LET ch == bus.channels[channel + 1]
             s == wakeup_queue_wakeup_all(ch.send_queue)
             r == wakeup_queue_wakeup_all(ch.recv_queue)
             b == wakeup_queue_wakeup_all(bus.broadcast_queue)
         IN  Eff([bus.channels EXCEPT ![channel + 1] = NullChannel], b.queue,
                 s.woken \cup r.woken \cup b.woken, Unwritten, FALSE, 0, <<>>)

\* ---- single-item operations ------------------------------------------------
\* Mutant of coro_bus_send: gives up on a full channel instead of waiting.
coro_bus_send_without_suspend(bus, c, channel, data) ==
    IF ~coro_bus_get_channel(bus, channel) THEN NoChannel(bus)
    ELSE LET ch == bus.channels[channel + 1] IN
         IF Len(ch.data) < ch.size_limit
         THEN LET w == wakeup_queue_wakeup_first(ch.recv_queue) IN
              Eff([bus.channels EXCEPT ![channel + 1] =
                      [ch EXCEPT !.data = Append(ch.data, data),
                                 !.recv_queue = w.queue]],
                  bus.broadcast_queue, w.woken, "NONE", FALSE, 0, <<>>)
         ELSE WouldBlock(bus)

\* One iteration of the loop of coro_bus_send, run by coroutine c.
coro_bus_send(bus, c, channel, data) ==
    IF ~coro_bus_get_channel(bus, channel) THEN NoChannel(bus)
    ELSE LET ch == bus.channels[channel + 1] IN
         IF Len(ch.data) < ch.size_limit
         THEN LET w == wakeup_queue_wakeup_first(ch.recv_queue) IN
              Eff([bus.channels EXCEPT ![channel + 1] =
                      [ch EXCEPT !.data = Append(ch.data, data),
                                 !.recv_queue = w.queue]],
                  bus.broadcast_queue, w.woken, "NONE", FALSE, 0, <<>>)
         ELSE Eff([bus.channels EXCEPT ![channel + 1].send_queue =
                      wakeup_queue_suspend_this(ch.send_queue, c)],
                  bus.broadcast_queue, {}, "WOULD_BLOCK", TRUE, 0, <<>>)

\* Mutant of coro_bus_try_send: pushes at the front of the buffer.
coro_bus_try_send_push_front(bus, channel, data) ==
    IF ~coro_bus_get_channel(bus, channel) THEN NoChannel(bus)
    ELSE LET ch == bus.channels[channel + 1] IN
         IF Len(ch.data) >= ch.size_limit THEN WouldBlock(bus)
         ELSE LET w == wakeup_queue_wakeup_first(ch.recv_queue) IN
              Eff([bus.channels EXCEPT ![channel + 1] =
                      [ch EXCEPT !.data = <<data>> \o ch.data,
                                 !.recv_queue = w.queue]],
                  bus.broadcast_queue, w.woken, "NONE", FALSE, 0, <<>>)

coro_bus_try_send(bus, channel, data) ==
    IF ~coro_bus_get_channel(bus, channel) THEN NoChannel(bus)
    ELSE LET ch == bus.channels[channel + 1] IN
         IF Len(ch.data) >= ch.size_limit THEN WouldBlock(bus)
         ELSE LET w == wakeup_queue_wakeup_first(ch.recv_queue) IN
              Eff([bus.channels EXCEPT ![channel + 1] =
                      [ch EXCEPT !.data = Append(ch.data, data),
                                 !.recv_queue = w.queue]],
                  bus.broadcast_queue, w.woken, "NONE", FALSE, 0, <<>>)

\* One iteration of the loop of coro_bus_recv, run by coroutine c.
\* Mutant of coro_bus_recv: frees a slot and leaves the broadcasters asleep.
coro_bus_recv_without_broadcast_wakeup(bus, c, channel) ==
    IF ~coro_bus_get_channel(bus, channel) THEN NoChannel(bus)
    ELSE LET ch == bus.channels[channel + 1] IN
         IF ch.data # <<>>
         THEN LET w == wakeup_queue_wakeup_first(ch.send_queue) IN
              Eff([bus.channels EXCEPT ![channel + 1] =
                      [ch EXCEPT !.data = Tail(ch.data),
                                 !.send_queue = w.queue]],
                  bus.broadcast_queue, w.woken, "NONE", FALSE, 0,
                  <<Head(ch.data)>>)
         ELSE Eff([bus.channels EXCEPT ![channel + 1].recv_queue =
                      wakeup_queue_suspend_this(ch.recv_queue, c)],
                  bus.broadcast_queue, {}, "WOULD_BLOCK", TRUE, 0, <<>>)

coro_bus_recv(bus, c, channel) ==
    IF ~coro_bus_get_channel(bus, channel) THEN NoChannel(bus)
    ELSE LET ch == bus.channels[channel + 1] IN
         IF ch.data # <<>>
         THEN LET w == wakeup_queue_wakeup_first(ch.send_queue)
                  b == wakeup_queue_wakeup_first(bus.broadcast_queue)
              IN  Eff([bus.channels EXCEPT ![channel + 1] =
                          [ch EXCEPT !.data = Tail(ch.data),
                                     !.send_queue = w.queue]],
                      b.queue, w.woken \cup b.woken, "NONE", FALSE, 0,
                      <<Head(ch.data)>>)
         ELSE Eff([bus.channels EXCEPT ![channel + 1].recv_queue =
                      wakeup_queue_suspend_this(ch.recv_queue, c)],
                  bus.broadcast_queue, {}, "WOULD_BLOCK", TRUE, 0, <<>>)

coro_bus_try_recv(bus, channel) ==
    IF ~coro_bus_get_channel(bus, channel) THEN NoChannel(bus)
    ELSE LET ch == bus.channels[channel + 1] IN
         IF ch.data = <<>> THEN WouldBlock(bus)
         ELSE LET w == wakeup_queue_wakeup_first(ch.send_queue)
                  b == wakeup_queue_wakeup_first(bus.broadcast_queue)
              IN  Eff([bus.channels EXCEPT ![channel + 1] =
                          [ch EXCEPT !.data = Tail(ch.data),
                                     !.send_queue = w.queue]],
                      b.queue, w.woken \cup b.woken, "NONE", FALSE, 0,
                      <<Head(ch.data)>>)

\* ---- broadcast ---------------------------------------------------------------
\* The scan of coro_bus_broadcast / coro_bus_try_broadcast from slot i on,
\* stopping at the first full channel: has_any and all_have_space.
RECURSIVE broadcast_scan(_, _, _)
broadcast_scan(chs, i, has_any) ==
    IF i > Len(chs) THEN [has_any |-> has_any, all_have_space |-> TRUE]
    ELSE IF ~chs[i].live THEN broadcast_scan(chs, i + 1, has_any)
    ELSE IF Len(chs[i].data) >= chs[i].size_limit
         THEN [has_any |-> TRUE, all_have_space |-> FALSE]
    ELSE broadcast_scan(chs, i + 1, TRUE)

\* The second loop: push the value to every open channel and wake the first
\* receiver of each.
broadcast_push(chs, data) ==
    [i \in 1..Len(chs) |->
        IF ~chs[i].live THEN chs[i]
        ELSE [chs[i] EXCEPT
                 !.data = Append(@, data),
                 !.recv_queue = wakeup_queue_wakeup_first(@).queue]]

broadcast_woken(chs) ==
    UNION {wakeup_queue_wakeup_first(chs[i].recv_queue).woken :
              i \in {j \in 1..Len(chs) : chs[j].live}}

\* Mutant of coro_bus_broadcast: no has_any check after the scan.
coro_bus_broadcast_without_has_any(bus, c, data) ==
    IF Len(bus.channels) = 0 THEN NoChannel(bus)
    ELSE LET s == broadcast_scan(bus.channels, 1, FALSE) IN
         IF s.all_have_space
         THEN Eff(broadcast_push(bus.channels, data), bus.broadcast_queue,
                  broadcast_woken(bus.channels), "NONE", FALSE, 0, <<>>)
         ELSE Eff(bus.channels,
                  wakeup_queue_suspend_this(bus.broadcast_queue, c),
                  {}, "WOULD_BLOCK", TRUE, 0, <<>>)

\* One iteration of the loop of coro_bus_broadcast, run by coroutine c.
coro_bus_broadcast(bus, c, data) ==
    IF Len(bus.channels) = 0 THEN NoChannel(bus)
    ELSE LET s == broadcast_scan(bus.channels, 1, FALSE) IN
         IF ~s.has_any THEN NoChannel(bus)
         ELSE IF s.all_have_space
              THEN Eff(broadcast_push(bus.channels, data), bus.broadcast_queue,
                       broadcast_woken(bus.channels), "NONE", FALSE, 0, <<>>)
         ELSE Eff(bus.channels,
                  wakeup_queue_suspend_this(bus.broadcast_queue, c),
                  {}, "WOULD_BLOCK", TRUE, 0, <<>>)

\* Mutant of coro_bus_try_broadcast: one pass that pushes as it scans and
\* gives up at the first full channel.
RECURSIVE push_until_full(_, _, _)
push_until_full(chs, i, data) ==
    IF i > Len(chs) THEN chs
    ELSE IF ~chs[i].live THEN push_until_full(chs, i + 1, data)
    ELSE IF Len(chs[i].data) >= chs[i].size_limit THEN chs
    ELSE push_until_full([chs EXCEPT ![i].data = Append(@, data)], i + 1, data)

coro_bus_try_broadcast_single_pass(bus, data) ==
    IF Len(bus.channels) = 0 THEN NoChannel(bus)
    ELSE LET s == broadcast_scan(bus.channels, 1, FALSE) IN
         IF ~s.all_have_space
         THEN Eff(push_until_full(bus.channels, 1, data), bus.broadcast_queue,
                  {}, "WOULD_BLOCK", FALSE, -1, <<>>)
         ELSE IF ~s.has_any THEN NoChannel(bus)
         ELSE Eff(broadcast_push(bus.channels, data), bus.broadcast_queue,
                  broadcast_woken(bus.channels), "NONE", FALSE, 0, <<>>)

coro_bus_try_broadcast(bus, data) ==
    IF Len(bus.channels) = 0 THEN NoChannel(bus)
    ELSE LET s == broadcast_scan(bus.channels, 1, FALSE) IN
         IF ~s.all_have_space THEN WouldBlock(bus)
         ELSE IF ~s.has_any THEN NoChannel(bus)
         ELSE Eff(broadcast_push(bus.channels, data), bus.broadcast_queue,
                  broadcast_woken(bus.channels), "NONE", FALSE, 0, <<>>)

\* ---- batch operations ----------------------------------------------------------
\* Mutant of send_v_transfer: pushes the whole batch, room or not.
send_v_transfer_whole_batch(bus, channel, data) ==
    LET ch == bus.channels[channel + 1]
        to_send == Len(data)
        w == wakeup_first_times(ch.recv_queue, to_send)
    IN  Eff([bus.channels EXCEPT ![channel + 1] =
                [ch EXCEPT !.data = ch.data \o SubSeq(data, 1, to_send),
                           !.recv_queue = w.queue]],
            bus.broadcast_queue, w.woken, "NONE", FALSE, to_send, <<>>)

\* Mutant of send_v_transfer: wakes every waiting receiver, however few values
\* went in.
send_v_transfer_wake_all(bus, channel, data) ==
    LET ch == bus.channels[channel + 1]
        space == ch.size_limit - Len(ch.data)
        to_send == Min(space, Len(data))
        w == wakeup_queue_wakeup_all(ch.recv_queue)
    IN  Eff([bus.channels EXCEPT ![channel + 1] =
                [ch EXCEPT !.data = ch.data \o SubSeq(data, 1, to_send),
                           !.recv_queue = w.queue]],
            bus.broadcast_queue, w.woken, "NONE", FALSE, to_send, <<>>)

\* The transfer of coro_bus_send_v / coro_bus_try_send_v into a channel with
\* room: push the first to_send values, then wake one receiver per value.
send_v_transfer(bus, channel, data) ==
    LET ch == bus.channels[channel + 1]
        space == ch.size_limit - Len(ch.data)
        to_send == Min(space, Len(data))
        w == wakeup_first_times(ch.recv_queue, to_send)
    IN  Eff([bus.channels EXCEPT ![channel + 1] =
                [ch EXCEPT !.data = ch.data \o SubSeq(data, 1, to_send),
                           !.recv_queue = w.queue]],
            bus.broadcast_queue, w.woken, "NONE", FALSE, to_send, <<>>)

\* Mutant of recv_v_transfer: wakes one sender, however many values went out.
recv_v_transfer_wake_one(bus, channel, capacity) ==
    LET ch == bus.channels[channel + 1]
        to_recv == Min(Len(ch.data), capacity)
        w == wakeup_queue_wakeup_first(ch.send_queue)
        b == wakeup_queue_wakeup_first(bus.broadcast_queue)
    IN  Eff([bus.channels EXCEPT ![channel + 1] =
                [ch EXCEPT !.data = SubSeq(ch.data, to_recv + 1, Len(ch.data)),
                           !.send_queue = w.queue]],
            b.queue, w.woken \cup b.woken, "NONE", FALSE, to_recv,
            SubSeq(ch.data, 1, to_recv))

\* The transfer of coro_bus_recv_v / coro_bus_try_recv_v out of a non-empty
\* channel: pop to_recv values, wake one sender per value and then the first
\* broadcaster.
recv_v_transfer(bus, channel, capacity) ==
    LET ch == bus.channels[channel + 1]
        to_recv == Min(Len(ch.data), capacity)
        w == wakeup_first_times(ch.send_queue, to_recv)
        b == wakeup_queue_wakeup_first(bus.broadcast_queue)
    IN  Eff([bus.channels EXCEPT ![channel + 1] =
                [ch EXCEPT !.data = SubSeq(ch.data, to_recv + 1, Len(ch.data)),
                           !.send_queue = w.queue]],
            b.queue, w.woken \cup b.woken, "NONE", FALSE, to_recv,
            SubSeq(ch.data, 1, to_recv))

\* A batch call with count / capacity 0.
Nothing(bus) == Eff(bus.channels, bus.broadcast_queue, {}, "NONE", FALSE, 0, <<>>)

\* Mutant of coro_bus_send_v: looks at the channel before it looks at count.
coro_bus_send_v_resolve_first(bus, c, channel, data) ==
    IF ~coro_bus_get_channel(bus, channel) THEN NoChannel(bus)
    ELSE LET ch == bus.channels[channel + 1] IN
         IF Len(ch.data) >= ch.size_limit
         THEN Eff([bus.channels EXCEPT ![channel + 1].send_queue =
                      wakeup_queue_suspend_this(ch.send_queue, c)],
                  bus.broadcast_queue, {}, "WOULD_BLOCK", TRUE, 0, <<>>)
         ELSE send_v_transfer(bus, channel, data)

\* coro_bus_send_v: the count check, then one iteration of its loop.
coro_bus_send_v(bus, c, channel, data) ==
    IF Len(data) = 0 THEN Nothing(bus)
    ELSE IF ~coro_bus_get_channel(bus, channel) THEN NoChannel(bus)
    ELSE LET ch == bus.channels[channel + 1] IN
         IF Len(ch.data) >= ch.size_limit
         THEN Eff([bus.channels EXCEPT ![channel + 1].send_queue =
                      wakeup_queue_suspend_this(ch.send_queue, c)],
                  bus.broadcast_queue, {}, "WOULD_BLOCK", TRUE, 0, <<>>)
         ELSE send_v_transfer(bus, channel, data)

\* Mutant of coro_bus_try_send_v: refuses a batch that does not fit whole.
coro_bus_try_send_v_all_or_block(bus, channel, data) ==
    IF Len(data) = 0 THEN Nothing(bus)
    ELSE IF ~coro_bus_get_channel(bus, channel) THEN NoChannel(bus)
    ELSE LET ch == bus.channels[channel + 1] IN
         IF Len(ch.data) + Len(data) > ch.size_limit THEN WouldBlock(bus)
         ELSE send_v_transfer(bus, channel, data)

coro_bus_try_send_v(bus, channel, data) ==
    IF Len(data) = 0 THEN Nothing(bus)
    ELSE IF ~coro_bus_get_channel(bus, channel) THEN NoChannel(bus)
    ELSE LET ch == bus.channels[channel + 1] IN
         IF Len(ch.data) >= ch.size_limit THEN WouldBlock(bus)
         ELSE send_v_transfer(bus, channel, data)

\* Mutant of coro_bus_recv_v: waits until the channel holds the whole batch.
coro_bus_recv_v_wait_whole_batch(bus, c, channel, capacity) ==
    IF capacity = 0 THEN Nothing(bus)
    ELSE IF ~coro_bus_get_channel(bus, channel) THEN NoChannel(bus)
    ELSE LET ch == bus.channels[channel + 1] IN
         IF Len(ch.data) < capacity
         THEN Eff([bus.channels EXCEPT ![channel + 1].recv_queue =
                      wakeup_queue_suspend_this(ch.recv_queue, c)],
                  bus.broadcast_queue, {}, "WOULD_BLOCK", TRUE, 0, <<>>)
         ELSE recv_v_transfer(bus, channel, capacity)

\* coro_bus_recv_v: the capacity check, then one iteration of its loop.
coro_bus_recv_v(bus, c, channel, capacity) ==
    IF capacity = 0 THEN Nothing(bus)
    ELSE IF ~coro_bus_get_channel(bus, channel) THEN NoChannel(bus)
    ELSE LET ch == bus.channels[channel + 1] IN
         IF ch.data = <<>>
         THEN Eff([bus.channels EXCEPT ![channel + 1].recv_queue =
                      wakeup_queue_suspend_this(ch.recv_queue, c)],
                  bus.broadcast_queue, {}, "WOULD_BLOCK", TRUE, 0, <<>>)
         ELSE recv_v_transfer(bus, channel, capacity)

coro_bus_try_recv_v(bus, channel, capacity) ==
    IF capacity = 0 THEN Nothing(bus)
    ELSE IF ~coro_bus_get_channel(bus, channel) THEN NoChannel(bus)
    ELSE LET ch == bus.channels[channel + 1] IN
         IF ch.data = <<>> THEN WouldBlock(bus)
         ELSE recv_v_transfer(bus, channel, capacity)

\* ---- history -------------------------------------------------------------------
\* fifo after a call cl passed as e says: what the caller was told it appended
\* goes to the tail, what it was told it removed leaves from the head.
fifo_after(cl, e) ==
    IF e.susp \/ e.ret < 0 THEN fifo
    ELSE [i \in 1..Len(fifo) |->
            CASE cl.op \in {"send", "try_send"} /\ i = cl.channel + 1 ->
                    Append(fifo[i], cl.data[1])
              [] cl.op \in {"send_v", "try_send_v"} /\ i = cl.channel + 1 ->
                    fifo[i] \o Take(cl.data, e.ret)
              [] cl.op \in {"broadcast", "try_broadcast"} /\ channels[i].live ->
                    Append(fifo[i], cl.data[1])
              [] cl.op \in {"recv", "try_recv"} /\ i = cl.channel + 1 ->
                    Drop(fifo[i], 1)
              [] cl.op \in {"recv_v", "try_recv_v"} /\ i = cl.channel + 1 ->
                    Drop(fifo[i], e.ret)
              [] OTHER -> fifo[i]]

\* ---- steps --------------------------------------------------------------------
\* The state after caller c (a coroutine, or 0 for a caller that never blocks)
\* went through call cl with effect e.
Apply(c, cl, e) ==
    /\ channels' = e.channels
    /\ broadcast_queue' = e.broadcast_queue
    /\ global_error' = ErrnoAfter(e)
    /\ coro_state' = [x \in Coros |->
                        IF x = c THEN (IF e.susp THEN "suspended" ELSE "idle")
                        ELSE IF x \in e.woken THEN "runnable"
                        ELSE coro_state[x]]
    /\ call' = [x \in Coros |->
                  IF x = c THEN (IF e.susp THEN cl ELSE NoCall) ELSE call[x]]
    /\ closed_under' = closed_under \ {c}
    /\ dangling' = dangling \ {c}
    /\ freed_access' = (freed_access \/ c \in dangling)
    /\ fifo' = fifo_after(cl, e)

\* The loop iteration of the blocking call cl of coroutine c.
Loop(bus, c, cl) ==
    CASE cl.op = "send" -> coro_bus_send(bus, c, cl.channel, cl.data[1])
      [] cl.op = "recv" -> coro_bus_recv(bus, c, cl.channel)
      [] cl.op = "broadcast" -> coro_bus_broadcast(bus, c, cl.data[1])
      [] cl.op = "send_v" -> coro_bus_send_v(bus, c, cl.channel, cl.data)
      [] cl.op = "recv_v" -> coro_bus_recv_v(bus, c, cl.channel, cl.capacity)

Init ==
    /\ channels = coro_bus_new.channels
    /\ broadcast_queue = coro_bus_new.broadcast_queue
    /\ global_error = coro_bus_new.err
    /\ coro_state = [c \in Coros |-> "idle"]
    /\ call = [c \in Coros |-> NoCall]
    /\ closed_under = {}
    /\ dangling = {}
    /\ freed_access = FALSE
    /\ fifo = <<>>
    /\ plan = [c \in Coros |-> NoPlan]

\* coro_bus_channel_open(bus, size_limit).
Open(size_limit) ==
    /\ \/ find_free(channels, 0) >= 0
       \/ Len(channels) < MaxSlots
    /\ LET e == coro_bus_channel_open(Bus, size_limit) IN
       /\ channels' = e.channels
       /\ global_error' = e.err
       /\ fifo' = [i \in 1..Len(e.channels) |->
                      IF i = e.ret + 1 \/ i > Len(fifo) THEN <<>> ELSE fifo[i]]
    /\ UNCHANGED <<broadcast_queue, coro_state, call, closed_under, dangling,
                   freed_access>>

\* coro_bus_channel_close(bus, channel).
Close(channel) ==
    LET e == coro_bus_channel_close(Bus, channel)
        valid == coro_bus_get_channel(Bus, channel)
        ch == IF valid THEN channels[channel + 1] ELSE NullChannel
        s == wakeup_queue_wakeup_all(ch.send_queue)
        r == wakeup_queue_wakeup_all(ch.recv_queue)
    IN  /\ channels' = e.channels
        /\ broadcast_queue' = e.broadcast_queue
        /\ global_error' = ErrnoAfter(e)
        /\ coro_state' = [x \in Coros |->
                            IF x \in e.woken THEN "runnable" ELSE coro_state[x]]
        /\ closed_under' = closed_under \cup Range(ch.send_queue)
                                        \cup Range(ch.recv_queue)
        \* delete ch: entries still linked into its queues now dangle
        /\ dangling' = dangling \cup Range(s.queue) \cup Range(r.queue)
        /\ fifo' = IF valid THEN [fifo EXCEPT ![channel + 1] = <<>>] ELSE fifo
        /\ UNCHANGED <<call, freed_access>>

Send(c, channel, data) ==
    /\ coro_state[c] = "idle"
    /\ Apply(c, MkCall("send", channel, <<data>>, 0),
             coro_bus_send(Bus, c, channel, data))

TrySend(channel, data) ==
    Apply(0, MkCall("try_send", channel, <<data>>, 0),
          coro_bus_try_send(Bus, channel, data))

Recv(c, channel) ==
    /\ coro_state[c] = "idle"
    /\ Apply(c, MkCall("recv", channel, <<>>, 1), coro_bus_recv(Bus, c, channel))

TryRecv(channel) ==
    Apply(0, MkCall("try_recv", channel, <<>>, 1), coro_bus_try_recv(Bus, channel))

Broadcast(c, data) ==
    /\ coro_state[c] = "idle"
    /\ Apply(c, MkCall("broadcast", -1, <<data>>, 0),
             coro_bus_broadcast(Bus, c, data))

TryBroadcast(data) ==
    Apply(0, MkCall("try_broadcast", -1, <<data>>, 0),
          coro_bus_try_broadcast(Bus, data))

SendV(c, channel, data) ==
    /\ coro_state[c] = "idle"
    /\ Apply(c, MkCall("send_v", channel, data, 0),
             coro_bus_send_v(Bus, c, channel, data))

TrySendV(channel, data) ==
    Apply(0, MkCall("try_send_v", channel, data, 0),
          coro_bus_try_send_v(Bus, channel, data))

RecvV(c, channel, capacity) ==
    /\ coro_state[c] = "idle"
    /\ Apply(c, MkCall("recv_v", channel, <<>>, capacity),
             coro_bus_recv_v(Bus, c, channel, capacity))

TryRecvV(channel, capacity) ==
    Apply(0, MkCall("try_recv_v", channel, <<>>, capacity),
          coro_bus_try_recv_v(Bus, channel, capacity))

\* The scheduler resumes a woken coroutine inside wakeup_queue_suspend_this:
\* coro_suspend() returns, the entry unlinks itself, the loop of the blocking
\* call goes round once more.
Resumption(c) == Loop(UnlinkBus(Bus, c), c, call[c])

Resume(c) ==
    /\ coro_state[c] = "runnable"
    /\ Apply(c, call[c], Resumption(c))

Next ==
    \/ \E n \in 1..MaxCap : Open(n) /\ UNCHANGED plan
    \/ \E d \in Descs : Close(d) /\ UNCHANGED plan
    \/ \E c \in Coros, d \in Descs, v \in Values : Send(c, d, v) /\ UNCHANGED plan
    \/ \E d \in Descs, v \in Values : TrySend(d, v) /\ UNCHANGED plan
    \/ \E c \in Coros, d \in Descs : Recv(c, d) /\ UNCHANGED plan
    \/ \E d \in Descs : TryRecv(d) /\ UNCHANGED plan
    \/ \E c \in Coros, v \in Values : Broadcast(c, v) /\ UNCHANGED plan
    \/ \E v \in Values : TryBroadcast(v) /\ UNCHANGED plan
    \/ \E c \in Coros, d \in Descs, b \in Bufs : SendV(c, d, b) /\ UNCHANGED plan
    \/ \E d \in Descs, b \in Bufs : TrySendV(d, b) /\ UNCHANGED plan
    \/ \E c \in Coros, d \in Descs, n \in 0..MaxBatch : RecvV(c, d, n) /\ UNCHANGED plan
    \/ \E d \in Descs, n \in 0..MaxBatch : TryRecvV(d, n) /\ UNCHANGED plan
    \/ \E c \in Coros : Resume(c) /\ UNCHANGED plan

Spec == Init /\ [][Next]_vars

NextFifo ==
    \/ \E n \in 1..MaxCap : Open(n) /\ UNCHANGED plan
    \/ \E d \in Descs : Close(d) /\ UNCHANGED plan
    \/ \E c \in FifoCoros, d \in Descs, v \in FifoValues : Send(c, d, v) /\ UNCHANGED plan
    \/ \E d \in Descs, v \in FifoValues : TrySend(d, v) /\ UNCHANGED plan
    \/ \E c \in FifoCoros, d \in Descs : Recv(c, d) /\ UNCHANGED plan
    \/ \E d \in Descs : TryRecv(d) /\ UNCHANGED plan
    \/ \E c \in FifoCoros, v \in FifoValues : Broadcast(c, v) /\ UNCHANGED plan
    \/ \E v \in FifoValues : TryBroadcast(v) /\ UNCHANGED plan
    \/ \E c \in FifoCoros, d \in Descs, b \in FifoBufs : SendV(c, d, b) /\ UNCHANGED plan
    \/ \E d \in Descs, b \in FifoBufs : TrySendV(d, b) /\ UNCHANGED plan
    \/ \E c \in FifoCoros, d \in Descs, n \in 0..MaxBatch : RecvV(c, d, n) /\ UNCHANGED plan
    \/ \E d \in Descs, n \in 0..MaxBatch : TryRecvV(d, n) /\ UNCHANGED plan
    \/ \E c \in FifoCoros : Resume(c) /\ UNCHANGED plan

SpecFifo == Init /\ [][NextFifo]_vars

\* ---- producers and consumers on one channel ------------------------------------
RECURSIVE Planned(_, _, _)
\* The calls the coroutines 1..n of role have in p[c].quota, in total.
Planned(p, role, n) ==
    IF n = 0 THEN 0
    ELSE Planned(p, role, n - 1) + (IF p[n].role = role THEN p[n].quota ELSE 0)
\* K blocking sends shared out among producers, K blocking receives among
\* consumers, 1 <= K <= MaxK, nothing started yet.
Plans ==
    {p \in [Coros -> [role : {"producer", "consumer"}, quota : 0..MaxK,
                      left : 0..MaxK]] :
        /\ \A c \in Coros : p[c].left = p[c].quota
        /\ Planned(p, "producer", NCoro) = Planned(p, "consumer", NCoro)
        /\ Planned(p, "producer", NCoro) \in 1..MaxK}

\* The bus after coro_bus_new and one coro_bus_channel_open(bus, size_limit),
\* which returned descriptor 0, and the coroutines about to start.
InitLive ==
    /\ \E size_limit \in 1..MaxCap :
          channels = coro_bus_channel_open(
                        [channels |-> coro_bus_new.channels,
                         broadcast_queue |-> coro_bus_new.broadcast_queue],
                        size_limit).channels
    /\ broadcast_queue = coro_bus_new.broadcast_queue
    /\ global_error = "NONE"
    /\ coro_state = [c \in Coros |-> "idle"]
    /\ call = [c \in Coros |-> NoCall]
    /\ closed_under = {}
    /\ dangling = {}
    /\ freed_access = FALSE
    /\ fifo = << <<>> >>
    /\ plan \in Plans

\* A producer starts its next coro_bus_send on descriptor 0.
Produce(c, data) ==
    /\ plan[c].role = "producer"
    /\ plan[c].left > 0
    /\ Send(c, 0, data)
    /\ plan' = [plan EXCEPT ![c].left = @ - 1]

\* A consumer starts its next coro_bus_recv on descriptor 0.
Consume(c) ==
    /\ plan[c].role = "consumer"
    /\ plan[c].left > 0
    /\ Recv(c, 0)
    /\ plan' = [plan EXCEPT ![c].left = @ - 1]

\* Whatever coroutine c does next when the scheduler picks it.
StepLive(c) ==
    \/ \E v \in Values : Produce(c, v)
    \/ Consume(c)
    \/ Resume(c) /\ UNCHANGED plan

NextLive ==
    \/ \E c \in Coros, v \in Values : Produce(c, v)
    \/ \E c \in Coros : Consume(c)
    \/ \E c \in Coros : Resume(c) /\ UNCHANGED plan

\* The scheduler is fair: a coroutine that stays able to run does run.
SpecLive ==
    InitLive /\ [][NextLive]_vars /\ \A c \in Coros : WF_vars(StepLive(c))

\* ---- properties ------------------------------------------------------------------
OpenSlots == {i \in 1..Len(channels) : channels[i].live}
HasRoom(i) == Len(channels[i].data) < channels[i].size_limit
HasData(i) == channels[i].data # <<>>
Runnable == {c \in Coros : coro_state[c] = "runnable"}
Idle == {c \in Coros : coro_state[c] = "idle"}
\* Descriptor d names an open channel.
IsOpen(d) == d + 1 \in OpenSlots
\* The descriptors that are negative, beyond the table, or not currently open.
BadDescs == {d \in Descs : ~IsOpen(d)}
\* The call passed without touching the bus: nobody woken, nobody suspended.
Untouched(e) ==
    /\ e.channels = channels
    /\ e.broadcast_queue = broadcast_queue
    /\ e.woken = {}
    /\ ~e.susp
Fails(e, err) == e.ret = -1 /\ e.err = err /\ Untouched(e)

\* C1: every coroutine that sat in a wait queue of a channel when it was closed
\* is runnable from then on until it resumes, and in whatever state it resumes
\* (whatever happened on the bus since close returned, a reopening of its
\* descriptor included) its blocked call returns -1 with NO_CHANNEL.
C1_ClosedWaitersReturnNoChannel ==
    \A c \in closed_under :
        /\ coro_state[c] = "runnable"
        /\ LET e == Resumption(c) IN
           ~e.susp /\ e.ret = -1 /\ e.err = "NO_CHANNEL"

\* C2: a channel is destroyed with both wait queues empty (no entry is left
\* linked into a destroyed queue), a woken coroutine is linked into no queue
\* at all when it resumes, and nobody ever touched a destroyed channel.
C2_DestroyedChannelIsDrained ==
    /\ dangling = {}
    /\ ~freed_access
    /\ \A c \in Runnable :
          /\ c \notin Range(broadcast_queue)
          /\ \A i \in 1..Len(channels) :
                c \notin Range(channels[i].send_queue) \cup Range(channels[i].recv_queue)
    /\ \A i \in 1..Len(channels) :
          ~channels[i].live => channels[i] = NullChannel

\* C2 witness: a channel was closed under two waiters, neither has resumed yet.
C2_Witness == Cardinality(closed_under) >= 2

\* C3: every open channel holds between 0 and size_limit values.
C3_BufferWithinCapacity ==
    \A i \in OpenSlots :
        Len(channels[i].data) >= 0 /\ Len(channels[i].data) <= channels[i].size_limit

\* C3 witness: a channel of the largest capacity is full and a sender waits
\* on it.
C3_Witness ==
    \E i \in OpenSlots :
        /\ channels[i].size_limit = MaxCap
        /\ Len(channels[i].data) = MaxCap
        /\ channels[i].send_queue # <<>>

\* C4 (as stated): whenever control is with the scheduler, a channel with room
\* has no send-waiter and a channel with data has no recv-waiter.
C4_NoWaiterWhenSatisfiable ==
    \A i \in OpenSlots :
        /\ HasRoom(i) => channels[i].send_queue = <<>>
        /\ HasData(i) => channels[i].recv_queue = <<>>

\* C4 (amended): whenever control is with the scheduler, a channel with room
\* has a send-waiter only while a coroutine blocked in send or send_v on its
\* descriptor is runnable and has not resumed yet, and a channel with data has
\* a recv-waiter only while a coroutine blocked in recv or recv_v on its
\* descriptor is runnable and has not resumed yet.
C4_WaiterOnlyWhileWakeupPending ==
    \A i \in OpenSlots :
        /\ (HasRoom(i) /\ channels[i].send_queue # <<>>) =>
              \E c \in Runnable :
                  call[c].op \in {"send", "send_v"} /\ call[c].channel = i - 1
        /\ (HasData(i) /\ channels[i].recv_queue # <<>>) =>
              \E c \in Runnable :
                  call[c].op \in {"recv", "recv_v"} /\ call[c].channel = i - 1

\* C4 witness: a channel has room and still a send-waiter.
C4_Witness ==
    \E i \in OpenSlots : HasRoom(i) /\ channels[i].send_queue # <<>>

\* C5: on every open channel the buffer is exactly the values callers were
\* told were appended, in the order of the appends, minus the values callers
\* were told were removed; and whatever receive runs next yields the oldest of
\* them, in order.
C5_Fifo ==
    \A i \in OpenSlots :
        /\ channels[i].data = fifo[i]
        /\ HasData(i) =>
              /\ coro_bus_try_recv(Bus, i - 1).out = <<Head(fifo[i])>>
              /\ \A c \in FifoCoros :
                    coro_bus_recv(Bus, c, i - 1).out = <<Head(fifo[i])>>
              /\ \A n \in 1..MaxBatch :
                    /\ coro_bus_try_recv_v(Bus, i - 1, n).out = Take(fifo[i], n)
                    /\ \A c \in FifoCoros :
                          coro_bus_recv_v(Bus, c, i - 1, n).out = Take(fifo[i], n)

\* C5 witness: a channel holds two different values, the larger one first.
C5_Witness ==
    \E i \in OpenSlots :
        Len(channels[i].data) >= 2 /\ channels[i].data[1] > channels[i].data[2]

\* C6: open returns the smallest non-negative integer that is no open
\* descriptor, installs a fresh channel there and leaves the other slots
\* alone; the table keeps its length when it has an empty slot and grows by
\* exactly one slot when it has none.
C6_OpenLowestFree ==
    \A n \in 1..MaxCap :
        LET e == coro_bus_channel_open(Bus, n)
            full == \A i \in 1..Len(channels) : channels[i].live
        IN  /\ e.ret >= 0
            /\ ~IsOpen(e.ret)
            /\ \A d \in 0..(e.ret - 1) : IsOpen(d)
            /\ Len(e.channels) = IF full THEN Len(channels) + 1 ELSE Len(channels)
            /\ e.channels[e.ret + 1] = NewChannel(n)
            /\ \A i \in 1..Len(channels) :
                  i # e.ret + 1 => e.channels[i] = channels[i]
            /\ e.err = "NONE"

\* C6 witness: the lowest slot is empty below an open one.
C6_Witness ==
    /\ Len(channels) >= 2
    /\ ~channels[1].live
    /\ channels[Len(channels)].live

\* C7: a non-blocking call succeeds whenever the state is satisfiable for it
\* (the channel has room, has data, or for try_broadcast some channel is open
\* and all open ones have room); otherwise it returns -1 with WOULD_BLOCK,
\* changes no buffer and no wait queue and wakes nobody; it never suspends.
C7_TryVariants ==
    /\ \A i \in OpenSlots :
          /\ \A v \in Values :
                LET e == coro_bus_try_send(Bus, i - 1, v) IN
                IF HasRoom(i)
                THEN e.ret = 0 /\ e.err = "NONE" /\ ~e.susp
                ELSE Fails(e, "WOULD_BLOCK")
          /\ LET e == coro_bus_try_recv(Bus, i - 1) IN
             IF HasData(i)
             THEN e.ret = 0 /\ e.err = "NONE" /\ ~e.susp
             ELSE Fails(e, "WOULD_BLOCK")
          /\ \A b \in Bufs \ {<<>>} :
                LET e == coro_bus_try_send_v(Bus, i - 1, b) IN
                IF HasRoom(i)
                THEN e.ret >= 1 /\ e.err = "NONE" /\ ~e.susp
                ELSE Fails(e, "WOULD_BLOCK")
          /\ \A n \in 1..MaxBatch :
                LET e == coro_bus_try_recv_v(Bus, i - 1, n) IN
                IF HasData(i)
                THEN e.ret >= 1 /\ e.err = "NONE" /\ ~e.susp
                ELSE Fails(e, "WOULD_BLOCK")
    /\ \A v \in Values :
          LET e == coro_bus_try_broadcast(Bus, v) IN
          /\ (OpenSlots # {} /\ \A i \in OpenSlots : HasRoom(i)) =>
                e.ret = 0 /\ e.err = "NONE" /\ ~e.susp
          /\ (\E i \in OpenSlots : ~HasRoom(i)) => Fails(e, "WOULD_BLOCK")

\* C7 witness: a full channel with a waiting sender beside an empty channel
\* with a waiting receiver: every try call has a target it must fail on.
C7_Witness ==
    /\ \E i \in OpenSlots : ~HasRoom(i) /\ channels[i].send_queue # <<>>
    /\ \E i \in OpenSlots : ~HasData(i) /\ channels[i].recv_queue # <<>>

\* What an all-or-nothing broadcast of v may do to the buffers.
AllOrNothing(e, v) ==
    IF ~e.susp /\ e.ret = 0
    THEN /\ Len(e.channels) = Len(channels)
         /\ \A i \in OpenSlots :
               /\ HasRoom(i)
               /\ e.channels[i].data = Append(channels[i].data, v)
         /\ \A i \in (1..Len(channels)) \ OpenSlots : e.channels[i] = channels[i]
    ELSE /\ Len(e.channels) = Len(channels)
         /\ \A i \in 1..Len(channels) : e.channels[i].data = channels[i].data

\* C8: a broadcast (try_broadcast, broadcast on entry, broadcast on
\* resumption) that returns 0 found every open channel with room and appended
\* its value once to the tail of each; one that fails or suspends changed no
\* buffer.
C8_BroadcastAllOrNothing ==
    /\ \A v \in Values : AllOrNothing(coro_bus_try_broadcast(Bus, v), v)
    /\ \A v \in Values, c \in Idle : AllOrNothing(coro_bus_broadcast(Bus, c, v), v)
    /\ \A c \in Runnable :
          call[c].op = "broadcast" => AllOrNothing(Resumption(c), call[c].data[1])

\* C8 witness: two channels are open, the first has room, the second is full,
\* and a broadcaster is suspended.
C8_Witness ==
    /\ Len(channels) >= 2
    /\ channels[1].live /\ HasRoom(1)
    /\ channels[2].live /\ ~HasRoom(2)
    /\ broadcast_queue # <<>>

NoChannelReturn(e) == ~e.susp /\ e.ret = -1 /\ e.err = "NO_CHANNEL"

\* C9: with no channel open, try_broadcast, broadcast on entry and broadcast
\* on resumption return -1 with NO_CHANNEL; and no broadcast returns 0 unless
\* a channel is open.
C9_BroadcastNoChannel ==
    /\ \A v \in Values :
          LET e == coro_bus_try_broadcast(Bus, v) IN
          /\ OpenSlots = {} => NoChannelReturn(e)
          /\ (~e.susp /\ e.ret = 0) => OpenSlots # {}
    /\ \A v \in Values, c \in Idle :
          LET e == coro_bus_broadcast(Bus, c, v) IN
          /\ OpenSlots = {} => NoChannelReturn(e)
          /\ (~e.susp /\ e.ret = 0) => OpenSlots # {}
    /\ \A c \in Runnable :
          call[c].op = "broadcast" =>
             LET e == Resumption(c) IN
             /\ OpenSlots = {} => NoChannelReturn(e)
             /\ (~e.susp /\ e.ret = 0) => OpenSlots # {}

\* C9 witness: a broadcaster was suspended and woken, and the table has slots
\* but none is open any more.
C9_Witness ==
    /\ Len(channels) >= 1
    /\ OpenSlots = {}
    /\ \E c \in Runnable : call[c].op = "broadcast"

\* The single-item calls and the batch calls with a count / capacity above 0
\* fail with NO_CHANNEL on descriptor d and touch nothing.
BadDescFails(d) ==
    /\ \A v \in Values :
          /\ Fails(coro_bus_try_send(Bus, d, v), "NO_CHANNEL")
          /\ \A c \in Idle : Fails(coro_bus_send(Bus, c, d, v), "NO_CHANNEL")
    /\ Fails(coro_bus_try_recv(Bus, d), "NO_CHANNEL")
    /\ \A c \in Idle : Fails(coro_bus_recv(Bus, c, d), "NO_CHANNEL")
    /\ \A b \in Bufs \ {<<>>} :
          /\ Fails(coro_bus_try_send_v(Bus, d, b), "NO_CHANNEL")
          /\ \A c \in Idle : Fails(coro_bus_send_v(Bus, c, d, b), "NO_CHANNEL")
    /\ \A n \in 1..MaxBatch :
          /\ Fails(coro_bus_try_recv_v(Bus, d, n), "NO_CHANNEL")
          /\ \A c \in Idle : Fails(coro_bus_recv_v(Bus, c, d, n), "NO_CHANNEL")

\* C10 (as stated): every channel-addressed call on a descriptor that is
\* negative, beyond the table or not open returns -1 with NO_CHANNEL and
\* changes nothing, a batch call with count / capacity 0 included.
C10_BadDescriptorAlwaysNoChannel ==
    \A d \in BadDescs :
        /\ BadDescFails(d)
        /\ Fails(coro_bus_try_send_v(Bus, d, <<>>), "NO_CHANNEL")
        /\ Fails(coro_bus_try_recv_v(Bus, d, 0), "NO_CHANNEL")
        /\ \A c \in Idle :
              /\ Fails(coro_bus_send_v(Bus, c, d, <<>>), "NO_CHANNEL")
              /\ Fails(coro_bus_recv_v(Bus, c, d, 0), "NO_CHANNEL")

SucceedsWithNothing(e) == e.ret = 0 /\ e.err = "NONE" /\ Untouched(e)

\* C10 (amended): on such a descriptor the single-item calls and the batch
\* calls with a count / capacity above 0 return -1 with NO_CHANNEL and change
\* nothing; a batch call with count / capacity 0 returns 0 with NONE and
\* changes nothing, never looking at the descriptor.
C10_BadDescriptorNoChannelUnlessEmptyBatch ==
    \A d \in BadDescs :
        /\ BadDescFails(d)
        /\ SucceedsWithNothing(coro_bus_try_send_v(Bus, d, <<>>))
        /\ SucceedsWithNothing(coro_bus_try_recv_v(Bus, d, 0))
        /\ \A c \in Idle :
              /\ SucceedsWithNothing(coro_bus_send_v(Bus, c, d, <<>>))
              /\ SucceedsWithNothing(coro_bus_recv_v(Bus, c, d, 0))

\* C10 witness: a slot inside the table is closed while another is open with
\* waiters, so there are descriptors of all three bad kinds and state to spoil.
C10_Witness ==
    /\ \E i \in 1..Len(channels) : ~channels[i].live
    /\ \E i \in OpenSlots : channels[i].send_queue # <<>>

\* ---- what the calls that can be made now would do -----------------------------
\* One pass of every non-blocking data call on every descriptor.
TryPasses ==
    {coro_bus_try_send(Bus, d, v) : d \in Descs, v \in Values}
    \cup {coro_bus_try_recv(Bus, d) : d \in Descs}
    \cup {coro_bus_try_broadcast(Bus, v) : v \in Values}
    \cup {coro_bus_try_send_v(Bus, d, b) : d \in Descs, b \in Bufs}
    \cup {coro_bus_try_recv_v(Bus, d, n) : d \in Descs, n \in 0..MaxBatch}
\* The first pass of every blocking call an idle coroutine can make, and the
\* next pass of every woken coroutine.
BlockingPasses ==
    {coro_bus_send(Bus, c, d, v) : c \in Idle, d \in Descs, v \in Values}
    \cup {coro_bus_recv(Bus, c, d) : c \in Idle, d \in Descs}
    \cup {coro_bus_broadcast(Bus, c, v) : c \in Idle, v \in Values}
    \cup {coro_bus_send_v(Bus, c, d, b) : c \in Idle, d \in Descs, b \in Bufs}
    \cup {coro_bus_recv_v(Bus, c, d, n) : c \in Idle, d \in Descs, n \in 0..MaxBatch}
    \cup {Resumption(c) : c \in Runnable}
OpenPasses == {coro_bus_channel_open(Bus, n) : n \in 1..MaxCap}
ClosePasses == {coro_bus_channel_close(Bus, d) : d \in Descs}
\* The passes that end in a return.
Returns(passes) == {e \in passes : ~e.susp}

\* C11 (as stated): every return path of every public operation, close_channel
\* included, assigns the error indicator.
C11_EveryOperationWritesErrno ==
    \A e \in Returns(TryPasses \cup BlockingPasses) \cup OpenPasses
              \cup ClosePasses \cup {coro_bus_new} :
        e.err # Unwritten

\* C11 (amended): every return path of new_bus, open_channel and of every send,
\* recv and broadcast operation, single or batch, blocking or not, assigns the
\* error indicator, so that after the call it holds nothing an earlier call
\* left; close_channel is the exception and assigns it on no path.
C11_EveryOperationButCloseWritesErrno ==
    /\ \A e \in Returns(TryPasses \cup BlockingPasses) \cup OpenPasses
                \cup {coro_bus_new} :
          e.err # Unwritten /\ ErrnoAfter(e) = e.err
    /\ \A e \in ClosePasses : e.err = Unwritten /\ ErrnoAfter(e) = global_error

\* C11 witness: an earlier call left WOULD_BLOCK behind, a woken coroutine is
\* about to return with success, and a close of an open channel is possible.
C11_Witness ==
    /\ global_error = "WOULD_BLOCK"
    /\ \E c \in Runnable : ~Resumption(c).susp /\ Resumption(c).err = "NONE"
    /\ OpenSlots # {}

\* C12: a send, recv or broadcast call, single or batch, returns a non-negative
\* value exactly when the error indicator is NONE at its return and -1 exactly
\* when it is NO_CHANNEL or WOULD_BLOCK; a blocking call never returns with
\* WOULD_BLOCK, on its first pass or after any number of wake-ups.
C12_ReturnValueMatchesErrno ==
    /\ \A e \in Returns(TryPasses \cup BlockingPasses) :
          /\ e.ret >= -1
          /\ e.ret >= 0 <=> ErrnoAfter(e) = "NONE"
          /\ e.ret = -1 <=> ErrnoAfter(e) \in {"NO_CHANNEL", "WOULD_BLOCK"}
    /\ \A e \in Returns(BlockingPasses) : ErrnoAfter(e) # "WOULD_BLOCK"

\* C12 witness: a coroutine that suspended in recv_v (the indicator was
\* WOULD_BLOCK then) is woken and about to return a full batch.
C12_Witness ==
    \E c \in Runnable :
        /\ call[c].op = "recv_v"
        /\ ~Resumption(c).susp
        /\ Resumption(c).ret = MaxBatch

\* Every call of the run was made and has returned, and the buffer is empty.
Done ==
    /\ \A c \in Coros : plan[c].left = 0 /\ coro_state[c] = "idle"
    /\ \A i \in OpenSlots :
          /\ channels[i].data = <<>>
          /\ channels[i].send_queue = <<>>
          /\ channels[i].recv_queue = <<>>
\* Whichever call returns now returns 0 with NONE.
ReturnsZero ==
    \A e \in Returns(
            {coro_bus_send(Bus, c, 0, v) :
                c \in {x \in Idle : plan[x].role = "producer"}, v \in Values}
            \cup {coro_bus_recv(Bus, c, 0) :
                c \in {x \in Idle : plan[x].role = "consumer"}}
            \cup {Resumption(c) : c \in Runnable}) :
        e.ret = 0 /\ e.err = "NONE"

SendVPasses(d, b) ==
    {coro_bus_try_send_v(Bus, d, b)}
    \cup {coro_bus_send_v(Bus, c, d, b) : c \in Idle}
    \cup {Resumption(c) : c \in {x \in Runnable :
              call[x].op = "send_v" /\ call[x].channel = d /\ call[x].data = b}}
BlockingSendVPasses(d, b) == SendVPasses(d, b) \ {coro_bus_try_send_v(Bus, d, b)}
\* The same for recv_v / try_recv_v with room for n values.
RecvVPasses(d, n) ==
    {coro_bus_try_recv_v(Bus, d, n)}
    \cup {coro_bus_recv_v(Bus, c, d, n) : c \in Idle}
    \cup {Resumption(c) : c \in {x \in Runnable :
              call[x].op = "recv_v" /\ call[x].channel = d /\ call[x].capacity = n}}
BlockingRecvVPasses(d, n) == RecvVPasses(d, n) \ {coro_bus_try_recv_v(Bus, d, n)}
\* Effect e changed the buffer of slot i into data and no other buffer.
OnlyBuffer(e, i, data) ==
    /\ Len(e.channels) = Len(channels)
    /\ \A j \in 1..Len(channels) :
          e.channels[j].data = IF j = i THEN data ELSE channels[j].data

\* C14: on an open channel with room, send_v / try_send_v with count > 0
\* appends the first min(count, capacity - length) values of the batch, in
\* order, and returns that number; on a non-empty channel recv_v / try_recv_v
\* with capacity > 0 removes the first min(length, capacity) values, hands
\* them out in order and returns that number; the blocking forms suspend
\* exactly when the channel is completely full (empty), never for a batch
\* that fits (is there) only in part.
C14_BatchTransfersWhatFits ==
    \A d \in Descs : IsOpen(d) =>
        LET ch == channels[d + 1] IN
        /\ \A b \in FifoBufs \ {<<>>} :
              LET r == Min(Len(b), ch.size_limit - Len(ch.data)) IN
              IF HasRoom(d + 1)
              THEN \A e \in SendVPasses(d, b) :
                      /\ ~e.susp
                      /\ e.ret = r
                      /\ r >= 1
                      /\ OnlyBuffer(e, d + 1, ch.data \o Take(b, r))
              ELSE \A e \in BlockingSendVPasses(d, b) :
                      e.susp /\ OnlyBuffer(e, d + 1, ch.data)
        /\ \A n \in 1..MaxBatch :
              LET r == Min(Len(ch.data), n) IN
              IF HasData(d + 1)
              THEN \A e \in RecvVPasses(d, n) :
                      /\ ~e.susp
                      /\ e.ret = r
                      /\ r >= 1
                      /\ e.out = Take(ch.data, r)
                      /\ OnlyBuffer(e, d + 1, Drop(ch.data, r))
              ELSE \A e \in BlockingRecvVPasses(d, n) :
                      e.susp /\ OnlyBuffer(e, d + 1, ch.data)

\* C14 witness: a coroutine woken inside send_v finds room for a part of its
\* batch only, and the channel holds a value already.
C14_Witness ==
    \E c \in Runnable :
        /\ call[c].op = "send_v"
        /\ IsOpen(call[c].channel)
        /\ LET ch == channels[call[c].channel + 1] IN
           /\ ch.data # <<>>
           /\ ch.size_limit - Len(ch.data) >= 1
           /\ ch.size_limit - Len(ch.data) < Len(call[c].data)

\* C15: whatever the descriptor and whatever the state of the bus, a batch
\* call with count 0 (send_v, try_send_v) or capacity 0 (recv_v, try_recv_v)
\* returns 0 with NONE, does not suspend, wakes nobody and leaves every buffer
\* and every wait queue as it was.
C15_EmptyBatchIsNoOp ==
    \A d \in Descs :
        \A e \in {coro_bus_try_send_v(Bus, d, <<>>), coro_bus_try_recv_v(Bus, d, 0)}
                 \cup {coro_bus_send_v(Bus, c, d, <<>>) : c \in Idle}
                 \cup {coro_bus_recv_v(Bus, c, d, 0) : c \in Idle} :
            Untouched(e) /\ e.ret = 0 /\ e.err = "NONE"

\* C15 witness: a full channel with a sender waiting on it, a broadcaster
\* waiting on the bus, and the indicator not NONE.
C15_Witness ==
    /\ global_error # "NONE"
    /\ broadcast_queue # <<>>
    /\ \E i \in OpenSlots : ~HasRoom(i) /\ channels[i].send_queue # <<>>

\* The passes of a receive of any kind on descriptor d that can happen now
\* and take at least one value out of the channel.
ReceivesFrom(d) ==
    {e \in {coro_bus_try_recv(Bus, d)}
            \cup {coro_bus_recv(Bus, c, d) : c \in Idle}
            \cup UNION {RecvVPasses(d, n) : n \in 1..MaxBatch}
            \cup {Resumption(c) : c \in {x \in Runnable :
                      call[x].op = "recv" /\ call[x].channel = d}} :
        ~e.susp /\ e.ret >= 0}

\* C16: every coroutine in the broadcast queue is suspended inside broadcast;
\* a receive that takes a value out of any channel makes the head of the
\* broadcast queue runnable and removes it from the queue, a close of any open
\* channel does so for every broadcaster in the queue; and a woken broadcaster
\* that resumes while at least one channel is open and all open channels have
\* room appends its value to each of them and returns 0.
C16_BroadcasterWokenAndCompletes ==
    /\ \A c \in Range(broadcast_queue) :
          coro_state[c] = "suspended" /\ call[c].op = "broadcast"
    /\ \A d \in Descs : \A e \in ReceivesFrom(d) :
          broadcast_queue # <<>> =>
              /\ Head(broadcast_queue) \in e.woken
              /\ e.broadcast_queue = Tail(broadcast_queue)
    /\ \A d \in Descs : IsOpen(d) =>
          LET e == coro_bus_channel_close(Bus, d) IN
          /\ Range(broadcast_queue) \subseteq e.woken
          /\ e.broadcast_queue = <<>>
    /\ \A c \in Runnable :
          (/\ call[c].op = "broadcast"
           /\ OpenSlots # {}
           /\ \A i \in OpenSlots : HasRoom(i)) =>
              LET e == Resumption(c) IN
              /\ ~e.susp
              /\ e.ret = 0
              /\ e.err = "NONE"
              /\ \A i \in OpenSlots :
                    e.channels[i].data = Append(channels[i].data, call[c].data[1])

\* C16 witness: two channels are open and have room, one of them holds a value,
\* and a broadcaster that had suspended is runnable.
C16_Witness ==
    /\ Cardinality(OpenSlots) = 2
    /\ \A i \in OpenSlots : HasRoom(i)
    /\ \E i \in OpenSlots : HasData(i)
    /\ \E c \in Runnable : call[c].op = "broadcast"

\* One step took wait queue q to qn in order of arrival: the coroutines it
\* made runnable are a prefix of q and left the queue, the others stayed
\* suspended in their order, and a coroutine that suspended in this step
\* stands behind them all.
FifoStep(q, qn) ==
    \E k \in 0..Len(q) :
        /\ \A j \in 1..k : coro_state'[q[j]] = "runnable"
        /\ \A j \in (k + 1)..Len(q) : coro_state'[q[j]] = "suspended"
        /\ \/ qn = Drop(q, k)
           \/ \E c \in Coros :
                 /\ coro_state[c] # "suspended"
                 /\ coro_state'[c] = "suspended"
                 /\ qn = Append(Drop(q, k), c)

\* C17: every step treats every wait queue (the send and the receive queue of
\* each channel, the broadcast queue) first in, first out: it wakes from the
\* head only, and a coroutine that suspends, for the first time or because
\* its retry after a wake-up could not proceed, goes to the tail.
C17_WaitQueuesAreFifo ==
    [][/\ FifoStep(broadcast_queue, broadcast_queue')
       /\ \A i \in 1..Len(channels') :
             LET old == IF i <= Len(channels) THEN channels[i] ELSE NullChannel IN
             /\ FifoStep(old.send_queue, channels'[i].send_queue)
             /\ FifoStep(old.recv_queue, channels'[i].recv_queue)]_vars

\* C17 witness: the head of a send queue was woken and has not run yet, the
\* coroutine that arrived after it is still waiting.
C17_Witness ==
    \E i \in OpenSlots :
        /\ Len(channels[i].send_queue) = 1
        /\ \E c \in Runnable :
              call[c].op \in {"send", "send_v"} /\ call[c].channel = i - 1

\* The passes of send / try_send and of recv / try_recv on descriptor d that
\* can happen now.
SendPasses(d) ==
    {coro_bus_try_send(Bus, d, v) : v \in Values}
    \cup {coro_bus_send(Bus, c, d, v) : c \in Idle, v \in Values}
    \cup {Resumption(c) : c \in {x \in Runnable :
              call[x].op = "send" /\ call[x].channel = d}}
RecvPasses(d) ==
    {coro_bus_try_recv(Bus, d)}
    \cup {coro_bus_recv(Bus, c, d) : c \in Idle}
    \cup {Resumption(c) : c \in {x \in Runnable :
              call[x].op = "recv" /\ call[x].channel = d}}
\* The first n coroutines of queue q, or all of them if there are fewer.
Heads(q, n) == Range(Take(q, Min(n, Len(q))))
\* Effect e on slot i woke the first n receivers (senders) and nobody else of
\* the channel.
WokeReceivers(e, i, n) ==
    /\ e.woken \cap Range(channels[i].recv_queue) = Heads(channels[i].recv_queue, n)
    /\ e.channels[i].recv_queue = Drop(channels[i].recv_queue, Min(n, Len(channels[i].recv_queue)))
    /\ e.channels[i].send_queue = channels[i].send_queue
WokeSenders(e, i, n) ==
    /\ e.woken \cap Range(channels[i].send_queue) = Heads(channels[i].send_queue, n)
    /\ e.channels[i].send_queue = Drop(channels[i].send_queue, Min(n, Len(channels[i].send_queue)))
    /\ e.channels[i].recv_queue = channels[i].recv_queue

\* C18: a send_v / try_send_v that put t values into a channel wakes the
\* first min(t, waiting receivers) receivers of that channel and nobody else;
\* a recv_v / try_recv_v that took t values out wakes the first
\* min(t, waiting senders) senders of that channel and, whatever t, the head
\* of the broadcast queue and nobody else; send / try_send wake at most the
\* first receiver, recv / try_recv at most the first sender and the head of
\* the broadcast queue.
C18_OneWakeupPerItem ==
    \A d \in Descs : IsOpen(d) =>
        LET ch == channels[d + 1] IN
        /\ \A b \in Bufs \ {<<>>} : \A e \in Returns(SendVPasses(d, b)) :
              e.ret >= 0 =>
                  /\ WokeReceivers(e, d + 1, e.ret)
                  /\ e.woken = Heads(ch.recv_queue, e.ret)
                  /\ Cardinality(e.woken) = Min(e.ret, Len(ch.recv_queue))
                  /\ e.broadcast_queue = broadcast_queue
        /\ \A n \in 1..MaxBatch : \A e \in Returns(RecvVPasses(d, n)) :
              e.ret >= 0 =>
                  /\ WokeSenders(e, d + 1, e.ret)
                  /\ e.woken = Heads(ch.send_queue, e.ret) \cup Heads(broadcast_queue, 1)
                  /\ Cardinality(e.woken \cap Range(ch.send_queue))
                        = Min(e.ret, Len(ch.send_queue))
                  /\ Cardinality(e.woken \cap Range(broadcast_queue)) <= 1
                  /\ e.broadcast_queue = Drop(broadcast_queue, Min(1, Len(broadcast_queue)))
        /\ \A e \in Returns(SendPasses(d)) :
              e.ret >= 0 =>
                  /\ WokeReceivers(e, d + 1, 1)
                  /\ e.woken = Heads(ch.recv_queue, 1)
                  /\ e.broadcast_queue = broadcast_queue
        /\ \A e \in Returns(RecvPasses(d)) :
              e.ret >= 0 =>
                  /\ WokeSenders(e, d + 1, 1)
                  /\ e.woken = Heads(ch.send_queue, 1) \cup Heads(broadcast_queue, 1)
                  /\ e.broadcast_queue = Drop(broadcast_queue, Min(1, Len(broadcast_queue)))

\* C18 witness: two receivers wait on an empty channel that can take a batch
\* of two.
C18_Witness ==
    \E i \in OpenSlots :
        /\ Len(channels[i].recv_queue) = 2
        /\ channels[i].size_limit >= 2

\* C19: once every woken coroutine has run (nobody is runnable), an open
\* channel with room has an empty send queue and an open channel with data
\* has an empty receive queue.
C19_QuiescentNoSatisfiableWaiter ==
    Runnable = {} =>
        \A i \in OpenSlots :
            /\ Len(channels[i].data) < channels[i].size_limit =>
                  channels[i].send_queue = <<>>
            /\ Len(channels[i].data) > 0 => channels[i].recv_queue = <<>>

\* C19 witness: nobody is runnable, a sender waits on a full channel and a
\* receiver on an empty one.
C19_Witness ==
    /\ Runnable = {}
    /\ \E i \in OpenSlots : ~HasRoom(i) /\ channels[i].send_queue # <<>>
    /\ \E i \in OpenSlots : ~HasData(i) /\ channels[i].recv_queue # <<>>

\* C20: once every woken coroutine has run (nobody is runnable), if at least
\* one channel is open and every open channel has room, no broadcaster is
\* left in the broadcast queue.
C20_QuiescentNoStrandedBroadcaster ==
    (/\ Runnable = {}
     /\ OpenSlots # {}
     /\ \A i \in OpenSlots : HasRoom(i)) =>
        broadcast_queue = <<>>
====
